---- MODULE Spec2Model ----
(***************************************************************************)
(* A model of the device backup scripts of devnet_marathon:                *)
(*   src/device-backup.py   (pool of 4 workers, timestamps to the second,  *)
(*                           predecessor found by listing the directory),  *)
(*   src/unnamed/part_000   (one process per device, backup_log.txt).      *)
(*                                                                         *)
(* Python strings are sequences of one-character strings, so that          *)
(* str.strip, str.endswith, slicing, strftime, strptime and the string     *)
(* order used by sorted() are computed as Python computes them.            *)
(***************************************************************************)
EXTENDS Integers, Sequences, FiniteSets, TLC

(***************************************************************************)
(* Python str operations                                                   *)
(***************************************************************************)

\* str.endswith(suffix)
EndsWith(s, suf) ==
    /\ Len(suf) <= Len(s)
    /\ SubSeq(s, Len(s) - Len(suf) + 1, Len(s)) = suf

\* str.startswith(prefix)
StartsWith(s, pre) ==
    /\ Len(pre) <= Len(s)
    /\ SubSeq(s, 1, Len(pre)) = pre

RECURSIVE LeadingIn(_, _, _)
\* How many characters of s, from index i on, belong to chars without a break
LeadingIn(s, chars, i) ==
    IF i > Len(s) \/ s[i] \notin chars THEN 0
    ELSE 1 + LeadingIn(s, chars, i + 1)

RECURSIVE TrailingIn(_, _, _)
\* How many characters of s, from index i back, belong to chars without a break
TrailingIn(s, chars, i) ==
    IF i < 1 \/ s[i] \notin chars THEN 0
    ELSE 1 + TrailingIn(s, chars, i - 1)

\* str.strip(chars): drops, at both ends, every leading and trailing character
\* that belongs to the SET of characters chars (it does not remove a suffix).
StripChars(s, chars) ==
    SubSeq(s, LeadingIn(s, chars, 1) + 1, Len(s) - TrailingIn(s, chars, Len(s)))

\* s[n:]
SliceFrom(s, n) == SubSeq(s, n + 1, Len(s))

RECURSIVE LastIndexOf(_, _, _)
\* The last index up to i at which s holds the character c; 0 when none does
LastIndexOf(s, c, i) ==
    IF i < 1 THEN 0
    ELSE IF s[i] = c THEN i
    ELSE LastIndexOf(s, c, i - 1)

\* s.split(sep)[-1] for a one-character separator
SplitLast(s, sep) == SubSeq(s, LastIndexOf(s, sep, Len(s)) + 1, Len(s))

\* The characters of the model in code point order; Ord is order-isomorphic
\* to Python's ord() on them.
CodePointOrder ==
    << "\n", " ", "+", ",", "-", ".", "/",
       "0", "1", "2", "3", "4", "5", "6", "7", "8", "9", "@",
       "A", "B", "P", "U", "_",
       "a", "b", "c", "e", "g", "h", "j", "k", "l", "m", "n", "o", "p",
       "r", "s", "t", "u", "v", "x", "y" >>

Ord(c) == CHOOSE i \in 1..Len(CodePointOrder) : CodePointOrder[i] = c

\* Python's s1 < s2 on str: the first differing character decides, a proper
\* prefix is smaller.
StrLess(s1, s2) ==
    \/ /\ Len(s1) < Len(s2)
       /\ SubSeq(s2, 1, Len(s1)) = s1
    \/ \E i \in 1..Len(s1) :
          /\ i <= Len(s2)
          /\ SubSeq(s1, 1, i - 1) = SubSeq(s2, 1, i - 1)
          /\ Ord(s1[i]) < Ord(s2[i])

Digits == << "0", "1", "2", "3", "4", "5", "6", "7", "8", "9" >>

IsDigit(c) == c \in { "0", "1", "2", "3", "4", "5", "6", "7", "8", "9" }

DigitVal(c) == (CHOOSE i \in 1..10 : Digits[i] = c) - 1

RECURSIVE NatStr(_)
\* str(n) for n >= 0
NatStr(n) ==
    IF n < 10 THEN << Digits[n + 1] >>
    ELSE NatStr(n \div 10) \o << Digits[(n % 10) + 1] >>

\* str(n) / '%d' of an integer
IntStr(n) == IF n < 0 THEN << "-" >> \o NatStr(0 - n) ELSE NatStr(n)

RECURSIVE StrNat(_)
\* int(s) of a string of digits
StrNat(s) ==
    IF s = << >> THEN 0
    ELSE 10 * StrNat(SubSeq(s, 1, Len(s) - 1)) + DigitVal(s[Len(s)])

\* '%02d' and '%04d'
Pad2(n) == << Digits[(n \div 10) + 1], Digits[(n % 10) + 1] >>

Pad4(n) == Pad2(n \div 100) \o Pad2(n % 100)

RECURSIVE JoinWith(_, _)
\* sep.join(parts)
JoinWith(sep, parts) ==
    IF parts = << >> THEN << >>
    ELSE IF Len(parts) = 1 THEN parts[1]
    ELSE parts[1] \o sep \o JoinWith(sep, Tail(parts))

RECURSIVE SplitLines(_)
\* str.splitlines() on text whose only line boundary is "\n": a final "\n"
\* does not open an empty last line.
SplitLines(text) ==
    IF text = << >> THEN << >>
    ELSE IF \A i \in 1..Len(text) : text[i] # "\n" THEN << text >>
    ELSE LET k == CHOOSE i \in 1..Len(text) :
                      text[i] = "\n" /\ \A j \in 1..(i-1) : text[j] # "\n"
         IN << SubSeq(text, 1, k - 1) >> \o SplitLines(SubSeq(text, k + 1, Len(text)))

\* os.path.join(a, b) on POSIX
PathJoin2(a, b) ==
    IF StartsWith(b, << "/" >>) THEN b
    ELSE IF a = << >> \/ EndsWith(a, << "/" >>) THEN a \o b
    ELSE a \o << "/" >> \o b

\* os.path.join(a, b, c)
PathJoin3(a, b, c) == PathJoin2(PathJoin2(a, b), c)

(***************************************************************************)
(* Module constants of device-backup.py                                    *)
(***************************************************************************)

BACKUP_DIR_PATH ==
    << "/", "U", "s", "e", "r", "s", "/", "o", "t", "s", "e", "l", "o", "v",
       "a", "/", "P", "y", "c", "h", "a", "r", "m", "P", "r", "o", "j", "e", "c",
       "t", "s", "/", "b", "a", "c", "k", "u", "p", "_", "c", "r", "e", "a", "t",
       "o", "r", "_", "v", "2", "/", "b", "a", "c", "k", "u", "p", "s" >>

\* The argument of mp.Pool(4)
PoolSize == 4

DotTxt == << ".", "t", "x", "t" >>

DotChanges == << ".", "c", "h", "a", "n", "g", "e", "s" >>

\* The character set that str.strip('.txt') removes at both ends
StripTxtChars == { ".", "t", "x" }

(***************************************************************************)
(* datetime: strftime, strptime                                            *)
(***************************************************************************)

IsLeap(Y) == (Y % 4 = 0 /\ Y % 100 # 0) \/ Y % 400 = 0

DaysInMonth(Y, m) ==
    IF m = 2 THEN (IF IsLeap(Y) THEN 29 ELSE 28)
    ELSE IF m \in {4, 6, 9, 11} THEN 30 ELSE 31

\* Days from 1970-01-01 to the civil date Y-m-d (proleptic Gregorian)
DaysFromCivil(Y, m, d) ==
    LET y   == IF m <= 2 THEN Y - 1 ELSE Y
        era == y \div 400
        yoe == y - era * 400
        mp  == IF m > 2 THEN m - 3 ELSE m + 9
        doy == (153 * mp + 2) \div 5 + d - 1
        doe == yoe * 365 + yoe \div 4 - yoe \div 100 + doy
    IN era * 146097 + doe - 719468

\* The number datetime.strftime('%s') prints (glibc: mktime of the naive
\* local time); the local time zone is taken to be UTC.
UnixSeconds(dt) ==
    DaysFromCivil(dt.Y, dt.m, dt.d) * 86400 + dt.H * 3600 + dt.M * 60 + dt.S

\* now.strftime("%Y_%m_%d-%H_%M_%S")
Strftime(dt) ==
    Pad4(dt.Y) \o << "_" >> \o Pad2(dt.m) \o << "_" >> \o Pad2(dt.d) \o << "-" >>
        \o Pad2(dt.H) \o << "_" >> \o Pad2(dt.M) \o << "_" >> \o Pad2(dt.S)

RECURSIVE DigitRun(_, _)
\* The length of the run of digits of s that starts at index i
DigitRun(s, i) ==
    IF i > Len(s) \/ ~IsDigit(s[i]) THEN 0 ELSE 1 + DigitRun(s, i + 1)

RECURSIVE Tokens(_, _)
\* The digit fields of s when s is digits, seps[1], digits, seps[2], ...,
\* digits and nothing else; << >> when s has another shape.
Tokens(s, seps) ==
    LET k == DigitRun(s, 1)
    IN IF k = 0 THEN << >>
       ELSE IF seps = << >> THEN (IF k = Len(s) THEN << s >> ELSE << >>)
       ELSE IF k >= Len(s) \/ s[k + 1] # Head(seps) THEN << >>
       ELSE LET rest == Tokens(SubSeq(s, k + 2, Len(s)), Tail(seps))
            IN IF rest = << >> THEN << >> ELSE << SubSeq(s, 1, k) >> \o rest

NoDate == [Y |-> 0, m |-> 0, d |-> 0, H |-> 0, M |-> 0, S |-> 0]

\* datetime.datetime.strptime(s, '%Y_%m_%d-%H_%M_%S'): ok = FALSE stands for
\* the ValueError it raises. %Y takes exactly four digits, the other fields
\* one or two digits within the field's range (the regular expressions of
\* _strptime), the whole string must be consumed, and the date must exist.
Strptime(s) ==
    LET t == Tokens(s, << "_", "_", "-", "_", "_" >>)
    IN IF t = << >> THEN [ok |-> FALSE, dt |-> NoDate]
       ELSE LET Y  == StrNat(t[1])
                m  == StrNat(t[2])
                d  == StrNat(t[3])
                H  == StrNat(t[4])
                M  == StrNat(t[5])
                S  == StrNat(t[6])
                fits == /\ Len(t[1]) = 4
                        /\ \A i \in 2..6 : Len(t[i]) <= 2
                        /\ Y >= 1
                        /\ m \in 1..12
                        /\ d >= 1
                        /\ H \in 0..23
                        /\ M \in 0..59
                        /\ S \in 0..59
            IN IF fits /\ d <= DaysInMonth(Y, m)
               THEN [ok |-> TRUE,
                     dt |-> [Y |-> Y, m |-> m, d |-> d, H |-> H, M |-> M, S |-> S]]
               ELSE [ok |-> FALSE, dt |-> NoDate]

(***************************************************************************)
(* Artifact naming and predecessor lookup (device-backup.py)               *)
(***************************************************************************)

\* The hostname's backup directory, os.path.join(BACKUP_DIR_PATH, hostname)
backup_dir(hostname) == PathJoin2(BACKUP_DIR_PATH, hostname)

\* A path whose file name leaves the timestamp out: the backups of one
\* hostname would share it
path_without_timestamp(hostname, timestamp) ==
    PathJoin3(BACKUP_DIR_PATH, hostname, hostname \o DotTxt)

\* The value get_backup_file_path returns (its mkdir is the step
\* PathExists/Mkdir of the task, and of CallNamer)
get_backup_file_path(hostname, timestamp) ==
    PathJoin3(BACKUP_DIR_PATH, hostname,
              hostname \o << "-" >> \o timestamp \o DotTxt)

\* file_name.strip('.txt')[len(hostname)+1:] parsed by strptime
filename_datetime(hostname, file_name) ==
    Strptime(SliceFrom(StripChars(file_name, StripTxtChars), Len(hostname) + 1))

\* The key of the dictionary backup_files: filename_datetime.strftime('%s')
backup_key(hostname, file_name) ==
    IntStr(UnixSeconds(filename_datetime(hostname, file_name).dt))

\* A lookup that does not leave the current backup file out
previous_among_all(hostname, curent_backup_file_path, listing) ==
    LET selected == { f \in listing : EndsWith(f, DotTxt) }
    IN IF \E f \in selected : ~filename_datetime(hostname, f).ok
       THEN { [kind |-> "ValueError", path |-> << >>] }
       ELSE IF selected = {}
       THEN { [kind |-> "False", path |-> << >>] }
       ELSE LET keys == { backup_key(hostname, f) : f \in selected }
                previous_backup_key ==
                    CHOOSE k \in keys : \A k2 \in keys \ {k} : StrLess(k2, k)
            IN { [kind |-> "path",
                  path |-> PathJoin3(BACKUP_DIR_PATH, hostname, f)] :
                    f \in { g \in selected :
                               backup_key(hostname, g) = previous_backup_key } }

\* The outcomes of get_previous_backup_file_path when os.listdir returns
\* the names in listing: kind "ValueError" (strptime raised), "False" (no other
\* artifact) or "path". sorted(keys, reverse=True)[0] is the greatest key in
\* the order of str. Two names with one key overwrite each other in the
\* dictionary in the order os.listdir yields them, which is arbitrary: each of
\* them is a possible outcome.
get_previous_backup_file_path(hostname, curent_backup_file_path, listing) ==
    LET current_backup_filename == SplitLast(curent_backup_file_path, "/")
        selected == { f \in listing :
                         EndsWith(f, DotTxt) /\ f # current_backup_filename }
    IN IF \E f \in selected : ~filename_datetime(hostname, f).ok
       THEN { [kind |-> "ValueError", path |-> << >>] }
       ELSE IF selected = {}
       THEN { [kind |-> "False", path |-> << >>] }
       ELSE LET keys == { backup_key(hostname, f) : f \in selected }
                previous_backup_key ==
                    CHOOSE k \in keys : \A k2 \in keys \ {k} : StrLess(k2, k)
            IN { [kind |-> "path",
                  path |-> PathJoin3(BACKUP_DIR_PATH, hostname, f)] :
                    f \in { g \in selected :
                               backup_key(hostname, g) = previous_backup_key } }

(***************************************************************************)
(* difflib.unified_diff(a, b) on two lists of lines (n = 3 lines of        *)
(* context, lineterm = "\n", no file names). Indices are Python's: a[i] is *)
(* a[i + 1] here. The "autojunk" heuristic of SequenceMatcher applies only *)
(* to lists of 200 lines or more and is left out.                          *)
(***************************************************************************)

Min(x, y) == IF x < y THEN x ELSE y

Max(x, y) == IF x > y THEN x ELSE y

\* SequenceMatcher.find_longest_match(alo, ahi, blo, bhi): the longest block
\* a[i:i+k] = b[j:j+k] inside the window; of the longest blocks the one that
\* starts earliest in a, and of those the one that starts earliest in b.
find_longest_match(a, b, alo, ahi, blo, bhi) ==
    LET Matches(i, j, k) == \A d \in 0..(k - 1) : a[i + d + 1] = b[j + d + 1]
        Sizes(i, j) == { k \in 0..Min(ahi - i, bhi - j) : Matches(i, j, k) }
        Size(i, j)  == CHOOSE k \in Sizes(i, j) : \A k2 \in Sizes(i, j) : k2 <= k
        starts   == (alo..(ahi - 1)) \X (blo..(bhi - 1))
        bestsize == IF starts = {} THEN 0
                    ELSE CHOOSE k \in { Size(p[1], p[2]) : p \in starts } :
                             \A p \in starts : Size(p[1], p[2]) <= k
    IN IF bestsize = 0 THEN << alo, blo, 0 >>
       ELSE LET best  == { p \in starts : Size(p[1], p[2]) = bestsize }
                besti == CHOOSE i \in { p[1] : p \in best } :
                             \A p \in best : i <= p[1]
                bestj == CHOOSE j \in { p[2] : p \in { q \in best : q[1] = besti } } :
                             \A p \in best : p[1] = besti => j <= p[2]
            IN << besti, bestj, bestsize >>

RECURSIVE matching_blocks_in(_, _, _, _, _, _)
\* The blocks SequenceMatcher.get_matching_blocks finds in a window, sorted:
\* the longest block, then the same to its left and to its right.
matching_blocks_in(a, b, alo, ahi, blo, bhi) ==
    LET x == find_longest_match(a, b, alo, ahi, blo, bhi)
        i == x[1]
        j == x[2]
        k == x[3]
    IN IF k = 0 THEN << >>
       ELSE (IF alo < i /\ blo < j
             THEN matching_blocks_in(a, b, alo, i, blo, j) ELSE << >>)
            \o << x >>
            \o (IF i + k < ahi /\ j + k < bhi
                THEN matching_blocks_in(a, b, i + k, ahi, j + k, bhi) ELSE << >>)

RECURSIVE collapse_adjacent(_, _)
\* get_matching_blocks' merge of adjacent blocks; cur is the block being grown
collapse_adjacent(blocks, cur) ==
    IF blocks = << >>
    THEN (IF cur[3] > 0 THEN << cur >> ELSE << >>)
    ELSE LET nxt == Head(blocks)
         IN IF cur[1] + cur[3] = nxt[1] /\ cur[2] + cur[3] = nxt[2]
            THEN collapse_adjacent(Tail(blocks),
                                   << cur[1], cur[2], cur[3] + nxt[3] >>)
            ELSE (IF cur[3] > 0 THEN << cur >> ELSE << >>)
                 \o collapse_adjacent(Tail(blocks), nxt)

\* SequenceMatcher.get_matching_blocks(): ends with the sentinel (la, lb, 0)
get_matching_blocks(a, b) ==
    collapse_adjacent(matching_blocks_in(a, b, 0, Len(a), 0, Len(b)),
                      << 0, 0, 0 >>)
        \o << << Len(a), Len(b), 0 >> >>

RECURSIVE opcodes_from(_, _, _)
\* SequenceMatcher.get_opcodes(): i, j are where the previous block ended
opcodes_from(blocks, i, j) ==
    IF blocks = << >> THEN << >>
    ELSE LET ai   == Head(blocks)[1]
             bj   == Head(blocks)[2]
             size == Head(blocks)[3]
             tag  == IF i < ai /\ j < bj THEN "replace"
                     ELSE IF i < ai THEN "delete"
                     ELSE IF j < bj THEN "insert"
                     ELSE ""
         IN (IF tag # ""
             THEN << [tag |-> tag, i1 |-> i, i2 |-> ai, j1 |-> j, j2 |-> bj] >>
             ELSE << >>)
            \o (IF size > 0
                THEN << [tag |-> "equal", i1 |-> ai, i2 |-> ai + size,
                         j1 |-> bj, j2 |-> bj + size] >>
                ELSE << >>)
            \o opcodes_from(Tail(blocks), ai + size, bj + size)

get_opcodes(a, b) == opcodes_from(get_matching_blocks(a, b), 0, 0)

RECURSIVE group_codes(_, _, _)
\* The loop of SequenceMatcher.get_grouped_opcodes(n): an equal run longer
\* than 2n closes the group after n lines and opens the next n lines before
\* the run's end.
group_codes(codes, group, n) ==
    IF codes = << >>
    THEN (IF group # << >> /\ ~(Len(group) = 1 /\ group[1].tag = "equal")
          THEN << group >> ELSE << >>)
    ELSE LET c == Head(codes)
         IN IF c.tag = "equal" /\ c.i2 - c.i1 > n + n
            THEN << Append(group, [c EXCEPT !.i2 = Min(c.i2, c.i1 + n),
                                            !.j2 = Min(c.j2, c.j1 + n)]) >>
                 \o group_codes(Tail(codes),
                                << [c EXCEPT !.i1 = Max(c.i1, c.i2 - n),
                                             !.j1 = Max(c.j1, c.j2 - n)] >>, n)
            ELSE group_codes(Tail(codes), Append(group, c), n)

\* get_grouped_opcodes: no opcodes at all stand for one equal line
codes_or_equal(codes) ==
    IF codes = << >>
    THEN << [tag |-> "equal", i1 |-> 0, i2 |-> 1, j1 |-> 0, j2 |-> 1] >>
    ELSE codes

\* get_grouped_opcodes: a leading equal run keeps its last n lines
trim_first(codes, n) ==
    IF codes[1].tag = "equal"
    THEN [codes EXCEPT ![1].i1 = Max(codes[1].i1, codes[1].i2 - n),
                       ![1].j1 = Max(codes[1].j1, codes[1].j2 - n)]
    ELSE codes

\* get_grouped_opcodes: a trailing equal run keeps its first n lines
trim_last(codes, n) ==
    IF codes[Len(codes)].tag = "equal"
    THEN [codes EXCEPT
             ![Len(codes)].i2 = Min(codes[Len(codes)].i2, codes[Len(codes)].i1 + n),
             ![Len(codes)].j2 = Min(codes[Len(codes)].j2, codes[Len(codes)].j1 + n)]
    ELSE codes

\* SequenceMatcher.get_grouped_opcodes(n)
get_grouped_opcodes(a, b, n) ==
    group_codes(trim_last(trim_first(codes_or_equal(get_opcodes(a, b)), n), n),
                << >>, n)

\* difflib._format_range_unified(start, stop)
format_range_unified(start, stop) ==
    LET beginning == start + 1
        length    == stop - start
    IN IF length = 1 THEN IntStr(beginning)
       ELSE IntStr(IF length = 0 THEN beginning - 1 ELSE beginning)
                \o << "," >> \o IntStr(length)

RECURSIVE prefixed(_, _)
\* [prefix + line for line in lines]
prefixed(prefix, lines) ==
    IF lines = << >> THEN << >>
    ELSE << << prefix >> \o Head(lines) >> \o prefixed(prefix, Tail(lines))

RECURSIVE group_lines(_, _, _)
\* The lines unified_diff yields for the opcodes of one group
group_lines(a, b, group) ==
    IF group = << >> THEN << >>
    ELSE LET c == Head(group)
         IN (IF c.tag = "equal"
             THEN prefixed(" ", SubSeq(a, c.i1 + 1, c.i2))
             ELSE (IF c.tag \in {"replace", "delete"}
                   THEN prefixed("-", SubSeq(a, c.i1 + 1, c.i2)) ELSE << >>)
                  \o (IF c.tag \in {"replace", "insert"}
                      THEN prefixed("+", SubSeq(b, c.j1 + 1, c.j2)) ELSE << >>))
            \o group_lines(a, b, Tail(group))

RECURSIVE hunks(_, _, _)
\* The hunk header and the lines of every group
hunks(a, b, groups) ==
    IF groups = << >> THEN << >>
    ELSE LET g     == Head(groups)
             first == g[1]
             last  == g[Len(g)]
         IN << << "@", "@", " ", "-" >> \o format_range_unified(first.i1, last.i2)
                  \o << " ", "+" >> \o format_range_unified(first.j1, last.j2)
                  \o << " ", "@", "@", "\n" >> >>
            \o group_lines(a, b, g)
            \o hunks(a, b, Tail(groups))

\* list(difflib.unified_diff(a, b)): nothing when no line differs, else the
\* two file header lines and the hunks
unified_diff(a, b) ==
    LET groups == get_grouped_opcodes(a, b, 3)
    IN IF groups = << >> THEN << >>
       ELSE << << "-", "-", "-", " ", "\n" >>, << "+", "+", "+", " ", "\n" >> >>
            \o hunks(a, b, groups)

(***************************************************************************)
(* State                                                                   *)
(***************************************************************************)

VARIABLES
    storage,      \* the tree below BACKUP_DIR_PATH: directory name ->
                  \*   (file name -> [content, mtime])
    run,          \* how many times main was started; stamps the files written
    now,          \* datetime.datetime.now() of the current run
    inventory,    \* what devices.csv holds: [hostname, running_config] rows
    mainpc,       \* where main is: idle, submit, get, returned, raised
    timestamp,    \* main's local timestamp
    device_list,  \* main's local device_list
    processes,    \* len(processes): how many apply_async calls were made
    got,          \* how many process.get() calls returned
    pool,         \* none, open, terminated
    task,         \* task[i]: the process_target call for device_list[i]
    probe         \* the calls made by the function-level specifications

vars == << storage, run, now, inventory, mainpc, timestamp, device_list,
           processes, got, pool, task, probe >>

(***************************************************************************)
(* Bounds and input domains                                                *)
(***************************************************************************)

\* The longest inventory of the fleet specification (more than PoolSize)
MaxDevices == 5

\* How many instants main may start at: consecutive seconds around the
\* instant at which the Unix time gets its tenth digit
NumInstants == 4

\* How many times main runs in the sequential specification
MaxRuns == 3

FirstInstant == [Y |-> 2001, m |-> 9, d |-> 9, H |-> 1, M |-> 46, S |-> 38]

Instants == { [FirstInstant EXCEPT !.S = FirstInstant.S + k] :
                 k \in 0..(NumInstants - 1) }

Earlier(t1, t2) == UnixSeconds(t1) < UnixSeconds(t2)

\* device['hostname'] of the i-th row of the fleet's inventory
Hostname(i) == << "r" >> \o NatStr(i)

ConfigA == << "A" >>

ConfigB == << "B" >>

ConfigAB == << "A", "\n", "B" >>

\* The running configurations a device returns to 'sh run'
Configs == { ConfigA, ConfigB, ConfigAB }

Device(h, c) == [hostname |-> h, running_config |-> c]

\* The fleet: n devices with distinct hostnames
Fleet(n) ==
    [i \in 1..n |-> Device(Hostname(i), IF i % 2 = 1 THEN ConfigA ELSE ConfigB)]

\* An inventory that names one hostname in two rows
TwinInventory == << Device(Hostname(2), ConfigA), Device(Hostname(2), ConfigB) >>

NoName == << >>

\* args: the arguments apply_async was given for the task
NewTask == [pc |-> "unsubmitted", conn |-> "none", disconnects |-> 0,
            prev |-> NoName, stage |-> "", args |-> << >>]

(***************************************************************************)
(* Storage: paths are resolved below BACKUP_DIR_PATH, where every path of  *)
(* the program lies (hostnames hold no "/")                                *)
(***************************************************************************)

\* The part of an absolute path below BACKUP_DIR_PATH/
Below(path) == SliceFrom(path, Len(BACKUP_DIR_PATH) + 1)

\* The directory name and the file name of a path BACKUP_DIR_PATH/d/n
DirOf(path) ==
    SubSeq(path, Len(BACKUP_DIR_PATH) + 2, LastIndexOf(path, "/", Len(path)) - 1)

NameOf(path) == SplitLast(path, "/")

\* os.path.exists(path) of a directory path BACKUP_DIR_PATH/d
path_exists(fs, path) == Below(path) \in DOMAIN fs

\* os.mkdir(path) of a directory path BACKUP_DIR_PATH/d that does not exist
made_dir(fs, path) ==
    [d \in DOMAIN fs \cup { Below(path) } |->
        IF d \in DOMAIN fs THEN fs[d] ELSE << >>]

\* os.listdir(path) of a directory path BACKUP_DIR_PATH/d
listdir(fs, path) == DOMAIN fs[Below(path)]

\* Whether a file exists at the path
is_file(fs, path) ==
    /\ DirOf(path) \in DOMAIN fs
    /\ NameOf(path) \in DOMAIN fs[DirOf(path)]

\* The file at the path
file_at(fs, path) == fs[DirOf(path)][NameOf(path)]

\* The storage with the text stored in directory d under the name n
stored_at(fs, d, n, text) ==
    [fs EXCEPT ![d] =
        [m \in DOMAIN fs[d] \cup { n } |->
            IF m = n THEN [content |-> text, mtime |-> run] ELSE fs[d][m]]]

\* open(path, 'a') followed by file.write(text): the text is added to what
\* the file holds
written_appending(fs, path, text) ==
    stored_at(fs, DirOf(path), NameOf(path),
              IF is_file(fs, path) THEN file_at(fs, path).content \o text
              ELSE text)

\* open(path, 'w') followed by file.write(text): the storage after it
written(fs, path, text) == stored_at(fs, DirOf(path), NameOf(path), text)

\* A comparison by size alone, which takes two texts of one length for equal
filecmp_by_size(fs, f1, f2) ==
    Len(file_at(fs, f1).content) = Len(file_at(fs, f2).content)

\* filecmp.cmp(f1, f2) with its default shallow=True: equal os.stat
\* signatures (size, mtime) are taken for equal files; otherwise sizes, then
\* contents are compared.
filecmp_cmp(fs, f1, f2) ==
    LET size1 == Len(file_at(fs, f1).content)
        size2 == Len(file_at(fs, f2).content)
    IN IF size1 = size2 /\ file_at(fs, f1).mtime = file_at(fs, f2).mtime
       THEN TRUE
       ELSE IF size1 # size2 THEN FALSE
       ELSE file_at(fs, f1).content = file_at(fs, f2).content

\* changes_file_path of compare_backup_with_previous_config
changes_file_path(backup_file_path) ==
    StripChars(backup_file_path, StripTxtChars) \o DotChanges

\* A comparison that writes the delta over the previous artifact
compare_into_previous(fs, previous_backup_file_path, backup_file_path) ==
    IF ~filecmp_cmp(fs, previous_backup_file_path, backup_file_path)
    THEN written(fs, previous_backup_file_path,
                 JoinWith(<< "\n" >>,
                          unified_diff(
                              SplitLines(file_at(fs, previous_backup_file_path).content),
                              SplitLines(file_at(fs, backup_file_path).content))))
    ELSE fs

\* The storage after compare_backup_with_previous_config(previous, current)
\* returned: the changelog is written only when filecmp.cmp says the files
\* differ.
compare_backup_with_previous_config(fs, previous_backup_file_path, backup_file_path) ==
    IF ~filecmp_cmp(fs, previous_backup_file_path, backup_file_path)
    THEN LET delta == unified_diff(
                          SplitLines(file_at(fs, previous_backup_file_path).content),
                          SplitLines(file_at(fs, backup_file_path).content))
         IN written(fs, changes_file_path(backup_file_path),
                    JoinWith(<< "\n" >>, delta))
    ELSE fs

(***************************************************************************)
(* main (device-backup.py)                                                 *)
(***************************************************************************)

NumTasks == Len(task)

\* The tasks a pool process is executing
Running == { "naming", "mkdir", "backup", "disconnect", "locate", "compare" }

InProgress(i) == task[i].pc \in Running

\* Pool.terminate(), which leaving the with block calls: the pool's processes
\* are killed where they stand and the queued tasks are never run.
terminated(tasks) ==
    [i \in DOMAIN tasks |->
        IF tasks[i].pc \in Running \cup {"queued"}
        THEN [tasks[i] EXCEPT !.stage = tasks[i].pc, !.pc = "killed"]
        ELSE tasks[i]]

\* main up to the with statement: the timestamp, the device list, the pool
MainStart ==
    /\ mainpc = "idle"
    /\ run' = run + 1
    /\ timestamp' = Strftime(now)
    /\ device_list' = inventory
    /\ processes' = 0
    /\ got' = 0
    /\ pool' = "open"
    /\ task' = [i \in 1..Len(inventory) |-> NewTask]
    /\ mainpc' = IF Len(inventory) = 0 THEN "get" ELSE "submit"
    /\ UNCHANGED << storage, now, inventory, probe >>

\* processes.append(pool.apply_async(process_target, args=(device, timestamp)))
ApplyAsync ==
    /\ mainpc = "submit"
    /\ processes < Len(device_list)
    /\ processes' = processes + 1
    /\ task' = [task EXCEPT ![processes + 1].pc = "queued",
                            ![processes + 1].args =
                                << device_list[processes + 1], timestamp >>]
    /\ mainpc' = IF processes + 1 = Len(device_list) THEN "get" ELSE "submit"
    /\ UNCHANGED << storage, run, now, inventory, timestamp, device_list, got,
                    pool, probe >>

\* process.get() returns: the task has finished without an exception
Get ==
    /\ mainpc = "get"
    /\ got < NumTasks
    /\ task[got + 1].pc = "done"
    /\ got' = got + 1
    /\ UNCHANGED << storage, run, now, inventory, mainpc, timestamp,
                    device_list, processes, pool, task, probe >>

\* process.get() re-raises the exception that ended the task: it leaves the
\* for loop and the with block, which terminates the pool, and ends main.
GetRaises ==
    /\ mainpc = "get"
    /\ got < NumTasks
    /\ task[got + 1].pc = "failed"
    /\ pool' = "terminated"
    /\ task' = terminated(task)
    /\ mainpc' = "raised"
    /\ UNCHANGED << storage, run, now, inventory, timestamp, device_list,
                    processes, got, probe >>

\* Every get() has returned: the with block ends and main returns
PoolExit ==
    /\ mainpc = "get"
    /\ got = NumTasks
    /\ pool' = "terminated"
    /\ task' = terminated(task)
    /\ mainpc' = "returned"
    /\ UNCHANGED << storage, run, now, inventory, timestamp, device_list,
                    processes, got, probe >>

(***************************************************************************)
(* process_target (device-backup.py), run by a process of the pool         *)
(***************************************************************************)

hostname_of(i) == device_list[i].hostname

\* process_target's local backup_file_path, once get_backup_file_path returned
backup_file_path(i) == get_backup_file_path(hostname_of(i), timestamp)

\* process_target's local previous_backup_file_path (task[i].prev is its
\* file name)
previous_backup_file_path(i) ==
    PathJoin3(BACKUP_DIR_PATH, hostname_of(i), task[i].prev)

\* The task ends with an exception raised at the given stage
Raise(i, at) ==
    task' = [task EXCEPT ![i].pc = "failed", ![i].stage = at]

\* A pool that starts every queued task at once, however many are in
\* progress
ConnectUnbounded(i) ==
    /\ pool = "open"
    /\ task[i].pc = "queued"
    /\ \E reachable \in BOOLEAN :
          IF reachable
          THEN task' = [task EXCEPT ![i].pc = "naming", ![i].conn = "open"]
          ELSE Raise(i, "connecting")
    /\ UNCHANGED << storage, run, now, inventory, mainpc, timestamp,
                    device_list, processes, got, pool, probe >>

\* A free process of the pool takes the next task of the queue and calls
\* connect_to_device, which returns the connection or raises (the device is
\* unreachable, the login is refused).
Connect(i) ==
    /\ pool = "open"
    /\ task[i].pc = "queued"
    /\ \A j \in 1..(i - 1) : task[j].pc # "queued"
    /\ Cardinality({ j \in DOMAIN task : InProgress(j) }) < PoolSize
    /\ \E reachable \in BOOLEAN :
          IF reachable
          THEN task' = [task EXCEPT ![i].pc = "naming", ![i].conn = "open"]
          ELSE Raise(i, "connecting")
    /\ UNCHANGED << storage, run, now, inventory, mainpc, timestamp,
                    device_list, processes, got, pool, probe >>

\* get_backup_file_path: the test os.path.exists of the hostname's directory
PathExists(i) ==
    /\ pool = "open"
    /\ task[i].pc = "naming"
    /\ task' = [task EXCEPT ![i].pc =
                   IF path_exists(storage, backup_dir(hostname_of(i)))
                   THEN "backup" ELSE "mkdir"]
    /\ UNCHANGED << storage, run, now, inventory, mainpc, timestamp,
                    device_list, processes, got, pool, probe >>

\* get_backup_file_path: os.mkdir, which raises FileExistsError when the
\* directory was made since the test
Mkdir(i) ==
    /\ pool = "open"
    /\ task[i].pc = "mkdir"
    /\ IF path_exists(storage, backup_dir(hostname_of(i)))
       THEN /\ Raise(i, "naming")
            /\ storage' = storage
       ELSE /\ storage' = made_dir(storage, backup_dir(hostname_of(i)))
            /\ task' = [task EXCEPT ![i].pc = "backup"]
    /\ UNCHANGED << run, now, inventory, mainpc, timestamp,
                    device_list, processes, got, pool, probe >>

\* create_backup. Its handler is "except Error", and no name Error is
\* defined: when enable(), send_command, open or write raises, evaluating
\* the except clause raises NameError, which leaves create_backup and
\* process_target. create_backup never returns False.
\*   fetched: enable() and send_command('sh run') returned the configuration;
\*   opened:  open(backup_file_path, 'w') made or emptied the file;
\*   stored:  file.write and the close stored the text.
CreateBackup(i) ==
    /\ pool = "open"
    /\ task[i].pc = "backup"
    /\ \E fetched \in BOOLEAN, opened \in BOOLEAN, stored \in BOOLEAN :
          /\ ~fetched => ~opened
          /\ ~opened => ~stored
          /\ IF stored
             THEN /\ storage' = written(storage, backup_file_path(i),
                                        device_list[i].running_config)
                  /\ task' = [task EXCEPT ![i].pc = "disconnect"]
             ELSE /\ storage' = IF opened
                                THEN written(storage, backup_file_path(i), << >>)
                                ELSE storage
                  /\ Raise(i, IF fetched THEN "writing" ELSE "fetching")
    /\ UNCHANGED << run, now, inventory, mainpc, timestamp,
                    device_list, processes, got, pool, probe >>

\* disconnect_from_device
Disconnect(i) ==
    /\ pool = "open"
    /\ task[i].pc = "disconnect"
    /\ task' = [task EXCEPT ![i].pc = "locate",
                            ![i].conn = "closed",
                            ![i].disconnects = task[i].disconnects + 1]
    /\ UNCHANGED << storage, run, now, inventory, mainpc, timestamp,
                    device_list, processes, got, pool, probe >>

\* backup_result is True here: get_previous_backup_file_path, then the test
\* of its result
Locate(i) ==
    /\ pool = "open"
    /\ task[i].pc = "locate"
    /\ \E r \in get_previous_backup_file_path(
                    hostname_of(i), backup_file_path(i),
                    listdir(storage, backup_dir(hostname_of(i)))) :
          IF r.kind = "ValueError" THEN Raise(i, "locating")
          ELSE IF r.kind = "False"
          THEN task' = [task EXCEPT ![i].pc = "done"]
          ELSE task' = [task EXCEPT ![i].pc = "compare",
                                    ![i].prev = NameOf(r.path)]
    /\ UNCHANGED << storage, run, now, inventory, mainpc, timestamp,
                    device_list, processes, got, pool, probe >>

\* compare_backup_with_previous_config; filecmp.cmp and open raise when a
\* file cannot be read (readable = FALSE), and nothing catches it.
Compare(i) ==
    /\ pool = "open"
    /\ task[i].pc = "compare"
    /\ \E readable \in BOOLEAN :
          IF /\ readable
             /\ is_file(storage, previous_backup_file_path(i))
             /\ is_file(storage, backup_file_path(i))
          THEN /\ storage' = compare_backup_with_previous_config(
                                 storage, previous_backup_file_path(i),
                                 backup_file_path(i))
               /\ task' = [task EXCEPT ![i].pc = "done"]
          ELSE /\ storage' = storage
               /\ Raise(i, "diffing")
    /\ UNCHANGED << run, now, inventory, mainpc, timestamp,
                    device_list, processes, got, pool, probe >>

Worker(i) ==
    \/ Connect(i)
    \/ PathExists(i)
    \/ Mkdir(i)
    \/ CreateBackup(i)
    \/ Disconnect(i)
    \/ Locate(i)
    \/ Compare(i)

(***************************************************************************)
(* The fleet: one run of main over an inventory                            *)
(***************************************************************************)

\* The storage two earlier runs left, for the odd-numbered devices of the
\* fleet (the others are backed up for the first time now): the artifact of
\* the run before FirstInstant, the artifact of the run at FirstInstant, some
\* with the configuration the device still has, and the changelog of that run
PreviousConfig(i) == IF i % 4 = 1 THEN ConfigB ELSE ConfigA

ZerothInstant == [FirstInstant EXCEPT !.S = FirstInstant.S - 1]

FleetDirectory(i) ==
    LET zeroth == get_backup_file_path(Hostname(i), Strftime(ZerothInstant))
        first == get_backup_file_path(Hostname(i), Strftime(FirstInstant))
        delta == unified_diff(SplitLines(ConfigAB),
                              SplitLines(PreviousConfig(i)))
    IN [n \in { NameOf(zeroth), NameOf(first),
                NameOf(changes_file_path(first)) } |->
           IF n = NameOf(zeroth) THEN [content |-> ConfigAB, mtime |-> 0]
           ELSE IF n = NameOf(first)
           THEN [content |-> PreviousConfig(i), mtime |-> 0]
           ELSE [content |-> JoinWith(<< "\n" >>, delta), mtime |-> 0]]

FleetStorage ==
    [d \in { Hostname(i) : i \in { j \in 1..MaxDevices : j % 2 = 1 } } |->
        FleetDirectory(CHOOSE j \in 1..MaxDevices : Hostname(j) = d)]

SecondInstant == [FirstInstant EXCEPT !.S = FirstInstant.S + 1]

Init ==
    /\ inventory \in { Fleet(n) : n \in 0..MaxDevices } \cup { TwinInventory }
    /\ storage = FleetStorage
    /\ run = 0
    /\ now = SecondInstant
    /\ mainpc = "idle"
    /\ timestamp = << >>
    /\ device_list = << >>
    /\ processes = 0
    /\ got = 0
    /\ pool = "none"
    /\ task = << >>
    /\ probe = << >>

Next ==
    \/ MainStart
    \/ ApplyAsync
    \/ Get
    \/ GetRaises
    \/ PoolExit
    \/ \E i \in DOMAIN task : Worker(i)

Spec == Init /\ [][Next]_vars

(***************************************************************************)
(* Properties of the fleet run                                             *)
(***************************************************************************)

\* The tasks whose process_target has ended, by a return or by an exception
Ended(i) == task[i].pc \in { "done", "failed" }

\* C1: every process_target whose connect_to_device succeeded has
\* disconnected exactly once when it ends, whether it ends by returning or by
\* a failure of enable()/send_command, of open/write, of locating or of
\* diffing.
C1_DisconnectedOnEveryExit ==
    \A i \in DOMAIN task :
        (Ended(i) /\ task[i].conn # "none") => task[i].disconnects = 1

\* C2: when main has ended or the pool has been shut down, no dispatched
\* task is left that was still queued or in progress.
C2_RunEndsAfterEveryWorker ==
    (mainpc \in { "returned", "raised" } \/ pool = "terminated") =>
        \A i \in DOMAIN task : Ended(i)

\* The run has ended, the hostnames of the devices are distinct, exactly one
\* task has failed, at connecting, and no other task met a fault
OnlyOneFailsToConnect ==
    /\ mainpc \in { "returned", "raised" }
    /\ \A i, j \in DOMAIN task : hostname_of(i) = hostname_of(j) => i = j
    /\ Cardinality({ i \in DOMAIN task : task[i].pc = "failed" }) = 1
    /\ \A i \in DOMAIN task :
          task[i].pc = "failed" => task[i].stage = "connecting"

\* C3: at the end of a run in which exactly one device fails to connect,
\* every other task has succeeded and its backup file exists and holds the
\* configuration its device returned.
C3_SiblingsOfFailedConnectSucceed ==
    OnlyOneFailsToConnect =>
        \A i \in DOMAIN task :
            task[i].pc # "failed" =>
                /\ task[i].pc = "done"
                /\ is_file(storage, backup_file_path(i))
                /\ file_at(storage, backup_file_path(i)).content
                       = device_list[i].running_config

(***************************************************************************)
(* Successive runs: the script is run again and again for one device,      *)
(* starting with empty storage                                             *)
(***************************************************************************)

\* The hostnames of the device of the successive runs
SeqHostnames == { << "r", "1" >>, << "t", "1" >> }

\* Between two runs: main has returned, and the script is started again at a
\* later instant, when the device may hold another configuration. probe keeps
\* the timestamps of the runs that returned.
NextRun ==
    /\ mainpc = "returned"
    /\ run < MaxRuns
    /\ \E t \in Instants :
          /\ Earlier(now, t)
          /\ now' = t
    /\ \E c \in Configs :
          inventory' = << Device(inventory[1].hostname, c) >>
    /\ probe' = Append(probe, timestamp)
    /\ mainpc' = "idle"
    /\ pool' = "none"
    /\ task' = << >>
    /\ UNCHANGED << storage, run, timestamp, device_list, processes, got >>

InitSeq ==
    /\ inventory \in { << Device(h, c) >> : h \in SeqHostnames, c \in Configs }
    /\ storage = << >>
    /\ run = 0
    /\ now \in Instants
    /\ mainpc = "idle"
    /\ timestamp = << >>
    /\ device_list = << >>
    /\ processes = 0
    /\ got = 0
    /\ pool = "none"
    /\ task = << >>
    /\ probe = << >>

NextSeq ==
    \/ Next
    \/ NextRun

SpecSeq == InitSeq /\ [][NextSeq]_vars

\* get_previous_backup_file_path has been called in the task and has returned
\* or raised
Located(i) ==
    \/ task[i].pc \in { "compare", "done" }
    \/ task[i].pc = "failed" /\ task[i].stage \in { "locating", "diffing" }

\* The file name of the backup taken for the hostname at the timestamp
ArtifactName(hostname, ts) == NameOf(get_backup_file_path(hostname, ts))

\* C4: in the k-th of successive successful backups of one hostname,
\* get_previous_backup_file_path returns False when k = 1 and the artifact
\* of the (k-1)-th backup when k >= 2.
C4_ImmediatePredecessor ==
    \A i \in DOMAIN task :
        Located(i) =>
            /\ ~(task[i].pc = "failed" /\ task[i].stage = "locating")
            /\ task[i].prev =
                  IF probe = << >> THEN NoName
                  ELSE ArtifactName(hostname_of(i), probe[Len(probe)])

\* C7: when process_target has returned after storing a new artifact, the
\* .changes file of the artifact exists if and only if an earlier artifact
\* of the hostname existed, and then it is not empty, also when the two
\* artifacts hold the same text.
C7_ChangeRecordIffPredecessor ==
    \A i \in DOMAIN task :
        task[i].pc = "done" =>
            /\ is_file(storage, changes_file_path(backup_file_path(i)))
                  <=> (probe # << >>)
            /\ is_file(storage, changes_file_path(backup_file_path(i))) =>
                  file_at(storage, changes_file_path(backup_file_path(i))).content
                      # << >>

(***************************************************************************)
(* One run for one device whose directory holds any files                  *)
(***************************************************************************)

\* A file of the directory whose name ends with .txt and holds no timestamp
NotesTxt == << "n", "o", "t", "e", "s" >> \o DotTxt

\* The names of the backups of the hostname taken at the instants
ArtifactNames(hostname) ==
    { ArtifactName(hostname, Strftime(t)) : t \in Instants }

\* The names the files of the directory may have: backups taken at any
\* instants, the changelog of a backup, and a text file of another origin
DirNames ==
    ArtifactNames(Hostname(1))
        \cup { NameOf(changes_file_path(
                   get_backup_file_path(Hostname(1), Strftime(FirstInstant)))),
               NotesTxt }

InitDir ==
    /\ inventory = << Device(Hostname(1), ConfigA) >>
    /\ \E names \in SUBSET DirNames :
          storage = [d \in { Hostname(1) } |->
                        [n \in names |-> [content |-> ConfigB, mtime |-> 0]]]
    /\ run = 0
    /\ now \in Instants
    /\ mainpc = "idle"
    /\ timestamp = << >>
    /\ device_list = << >>
    /\ processes = 0
    /\ got = 0
    /\ pool = "none"
    /\ task = << >>
    /\ probe = << >>

SpecDir == InitDir /\ [][Next]_vars

\* The validly named backups of the task's hostname in its directory, other
\* than the task's own
ValidOthers(i) ==
    (ArtifactNames(hostname_of(i))
         \cap listdir(storage, backup_dir(hostname_of(i))))
        \ { NameOf(backup_file_path(i)) }

\* The instant in the name of a validly named backup
InstantOf(hostname, name) ==
    CHOOSE t \in Instants : ArtifactName(hostname, Strftime(t)) = name

\* C5: an artifact that get_previous_backup_file_path returns is a validly
\* named one whose timestamp is older than the current artifact's, and the
\* latest of the older ones in the directory.
C5_ReturnsLatestOlder ==
    \A i \in DOMAIN task :
        (Located(i) /\ task[i].prev # NoName) =>
            /\ task[i].prev \in ValidOthers(i)
            /\ Earlier(InstantOf(hostname_of(i), task[i].prev), now)
            /\ \A n \in ValidOthers(i) :
                  Earlier(InstantOf(hostname_of(i), n), now) =>
                      ~Earlier(InstantOf(hostname_of(i), task[i].prev),
                               InstantOf(hostname_of(i), n))

\* C6: with a .txt file in the directory whose name holds no timestamp,
\* get_previous_backup_file_path does not raise, and it returns a validly
\* named other artifact when there is one and False when there is none.
C6_SkipsMalformedName ==
    \A i \in DOMAIN task :
        (Located(i) /\ NotesTxt \in listdir(storage, backup_dir(hostname_of(i)))) =>
            /\ ~(task[i].pc = "failed" /\ task[i].stage = "locating")
            /\ task[i].prev = NoName <=> ValidOthers(i) = { }
            /\ task[i].prev # NoName => task[i].prev \in ValidOthers(i)

(***************************************************************************)
(* compare_backup_with_previous_config called twice on one pair of         *)
(* artifacts                                                               *)
(***************************************************************************)

\* The greatest number of lines of an artifact of the pair
MaxLines == 4

\* The lines of the artifacts of the pair
LineA == << "A" >>

LineB == << "B" >>

LineTexts == { LineA, LineB }

\* The texts of up to MaxLines lines
PairTexts ==
    { JoinWith(<< "\n" >>, lines) :
        lines \in UNION { [1..n -> LineTexts] : n \in 0..MaxLines } }

\* The pair: the backups of one hostname taken at two instants
PrevPath == get_backup_file_path(Hostname(1), Strftime(FirstInstant))

CurPath == get_backup_file_path(Hostname(1), Strftime(SecondInstant))

ChangesPath == changes_file_path(CurPath)

\* The text of a changelog left at the path of the changelog before the call
StaleText == << "s", "t", "a", "l", "e" >>

\* The directory with the pair, the previous artifact last modified before
\* the current one or at the same time, and with or without a changelog
PairStorage(text1, mtime1, text2, stale) ==
    [d \in { Hostname(1) } |->
        [n \in { NameOf(PrevPath), NameOf(CurPath) }
                   \cup (IF stale THEN { NameOf(ChangesPath) } ELSE { }) |->
            IF n = NameOf(PrevPath) THEN [content |-> text1, mtime |-> mtime1]
            ELSE IF n = NameOf(CurPath) THEN [content |-> text2, mtime |-> 1]
            ELSE [content |-> StaleText, mtime |-> 0]]]

\* probe keeps the number of calls made, the storage before the first call
\* and the storage after it
InitDiff ==
    /\ \E text1 \in PairTexts, text2 \in PairTexts,
          mtime1 \in { 0, 1 }, stale \in BOOLEAN :
          storage = PairStorage(text1, mtime1, text2, stale)
    /\ probe = [calls |-> 0, before |-> storage, first |-> storage]
    /\ run = 2
    /\ now = SecondInstant
    /\ inventory = << >>
    /\ mainpc = "compare"
    /\ timestamp = Strftime(SecondInstant)
    /\ device_list = << >>
    /\ processes = 0
    /\ got = 0
    /\ pool = "none"
    /\ task = << >>

\* The first call compare_backup_with_previous_config(PrevPath, CurPath)
CompareOnce ==
    /\ mainpc = "compare"
    /\ probe.calls = 0
    /\ storage' = compare_backup_with_previous_config(storage, PrevPath, CurPath)
    /\ probe' = [probe EXCEPT !.calls = 1, !.first = storage']
    /\ UNCHANGED << run, now, inventory, mainpc, timestamp, device_list,
                    processes, got, pool, task >>

\* The second call on the same pair
CompareTwice ==
    /\ mainpc = "compare"
    /\ probe.calls = 1
    /\ storage' = compare_backup_with_previous_config(storage, PrevPath, CurPath)
    /\ probe' = [probe EXCEPT !.calls = 2]
    /\ UNCHANGED << run, now, inventory, mainpc, timestamp, device_list,
                    processes, got, pool, task >>

NextDiff ==
    \/ CompareOnce
    \/ CompareTwice

SpecDiff == InitDiff /\ [][NextDiff]_vars

\* The texts of the pair and their lines
PrevText == file_at(probe.before, PrevPath).content

CurText == file_at(probe.before, CurPath).content

\* The call wrote the changelog: it took the pair for changed
TakenForChanged ==
    /\ is_file(probe.first, ChangesPath)
    /\ file_at(probe.first, ChangesPath).mtime = run

\* The two texts have as many lines and differ in the k-th line only
DifferInLine(k) ==
    LET a == SplitLines(PrevText)
        b == SplitLines(CurText)
    IN /\ Len(a) = Len(b)
       /\ k \in DOMAIN a
       /\ a[k] # b[k]
       /\ \A j \in DOMAIN a : j # k => a[j] = b[j]

\* How many lines of the changelog written by the first call are the line
\* with the sign ("-": removed, "+": added) before it
Marked(sign, line) ==
    LET record == SplitLines(file_at(probe.first, ChangesPath).content)
    IN Cardinality({ j \in DOMAIN record : record[j] = << sign >> \o line })

Removals == Marked("-", LineA) + Marked("-", LineB)

Additions == Marked("+", LineA) + Marked("+", LineB)

C9_Idempotent ==
    probe.calls = 2 =>
        /\ DOMAIN storage = DOMAIN probe.first
        /\ \A d \in DOMAIN storage :
              /\ DOMAIN storage[d] = DOMAIN probe.first[d]
              /\ \A n \in DOMAIN storage[d] :
                    /\ storage[d][n].content = probe.first[d][n].content
                    /\ n # NameOf(ChangesPath) =>
                          /\ n \in DOMAIN probe.before[d]
                          /\ storage[d][n] = probe.before[d][n]

\* Two calls on a pair taken for changed, made where an older changelog lay
C9_Witness ==
    /\ probe.calls = 2
    /\ is_file(probe.before, ChangesPath)
    /\ TakenForChanged
    /\ file_at(storage, ChangesPath).content # << >>
    /\ file_at(storage, ChangesPath).content # StaleText

(***************************************************************************)
(* get_backup_file_path called for two pairs (hostname, timestamp)         *)
(***************************************************************************)

\* Hostnames, one the beginning of another, one with the "-" that the file
\* name puts between hostname and timestamp, one that begins with a letter
\* of ".txt"
PathHostnames ==
    { << "r" >>, << "r", "1" >>, << "r", "-", "1" >>, << "t", "1" >> }

\* The timestamps get_current_date_and_time returns at the instants
Timestamps == { Strftime(t) : t \in Instants }

PathArgs == [hostname : PathHostnames, timestamp : Timestamps]

\* probe keeps the number of calls made, the arguments of the two calls, the
\* paths they returned and what the file names of the paths parse to
InitPath ==
    /\ \E first \in PathArgs, second \in PathArgs :
          probe = [calls |-> 0, args |-> << first, second >>, paths |-> << >>,
                   parsed |-> << >>]
    /\ \E h \in PathHostnames :
          storage \in { << >>, made_dir(<< >>, backup_dir(h)) }
    /\ run = 1
    /\ now = FirstInstant
    /\ inventory = << >>
    /\ mainpc = "naming"
    /\ timestamp = << >>
    /\ device_list = << >>
    /\ processes = 0
    /\ got = 0
    /\ pool = "none"
    /\ task = << >>

\* The next call of get_backup_file_path: it makes the directory of the
\* hostname when there is none, and returns the path
CallNamer ==
    /\ mainpc = "naming"
    /\ probe.calls < 2
    /\ LET arg == probe.args[probe.calls + 1]
       IN /\ storage' = IF path_exists(storage, backup_dir(arg.hostname))
                        THEN storage
                        ELSE made_dir(storage, backup_dir(arg.hostname))
          /\ probe' = [probe EXCEPT
                          !.calls = probe.calls + 1,
                          !.paths = Append(probe.paths,
                                           get_backup_file_path(arg.hostname,
                                                                arg.timestamp))]
    /\ UNCHANGED << run, now, inventory, mainpc, timestamp, device_list,
                    processes, got, pool, task >>

\* The loop body of get_previous_backup_file_path on the file name of a
\* returned path: the timestamp is parsed out of the name (ok = FALSE when
\* strptime raises ValueError)
ParseName ==
    /\ mainpc = "naming"
    /\ Len(probe.parsed) < probe.calls
    /\ LET k == Len(probe.parsed) + 1
       IN probe' = [probe EXCEPT
                       !.parsed = Append(probe.parsed,
                                         filename_datetime(
                                             probe.args[k].hostname,
                                             NameOf(probe.paths[k])))]
    /\ UNCHANGED << storage, run, now, inventory, mainpc, timestamp,
                    device_list, processes, got, pool, task >>

NextPath ==
    \/ CallNamer
    \/ ParseName

SpecPath == InitPath /\ [][NextPath]_vars

\* The path names a file of the directory of the hostname
InPartition(path, hostname) ==
    /\ StartsWith(path, backup_dir(hostname) \o << "/" >>)
    /\ LastIndexOf(path, "/", Len(path)) = Len(backup_dir(hostname)) + 1
    /\ path_exists(storage, backup_dir(hostname))

\* C10: the paths get_backup_file_path returns for two different pairs
\* (hostname, timestamp) are different, and each path names a file of the
\* directory of its hostname.
C10_PathInjective ==
    probe.calls = 2 =>
        /\ probe.paths[1] = probe.paths[2] => probe.args[1] = probe.args[2]
        /\ \A k \in 1..2 : InPartition(probe.paths[k], probe.args[k].hostname)

\* Two calls for one hostname at two instants
C10_Witness ==
    /\ probe.calls = 2
    /\ probe.args[1].hostname = probe.args[2].hostname
    /\ probe.args[1].timestamp # probe.args[2].timestamp
    /\ probe.paths[1] # probe.paths[2]

\* C11: the timestamp parsed out of the file name of a path that
\* get_backup_file_path built, by strip('.txt'), the slice after the
\* hostname and strptime, is the timestamp the path was built with.
C11_TimestampRoundTrip ==
    \A k \in DOMAIN probe.parsed :
        /\ probe.parsed[k].ok
        /\ Strftime(probe.parsed[k].dt) = probe.args[k].timestamp

(***************************************************************************)
(* get_current_date_and_time of the two scripts at two instants            *)
(***************************************************************************)

\* get_current_date_and_time of part_000: the numbers as str() writes them,
\* to the minute
v1_get_current_date_and_time(dt) ==
    NatStr(dt.Y) \o << "_" >> \o NatStr(dt.m) \o << "_" >> \o NatStr(dt.d)
        \o << "-" >> \o NatStr(dt.H) \o << "_" >> \o NatStr(dt.M)

\* Instants on both sides of a month, an hour, a minute and a second whose
\* number gains a digit
StampInstants ==
    { [Y |-> FirstInstant.Y, m |-> mo, d |-> FirstInstant.d,
       H |-> h, M |-> mi, S |-> se] :
        mo \in { 9, 10 }, h \in { 9, 10 }, mi \in { 9, 10 }, se \in { 9, 10 } }

\* probe keeps the two instants and the timestamps each script made of them
InitStamp ==
    /\ \E t1 \in StampInstants, t2 \in StampInstants :
          probe = [instants |-> << t1, t2 >>, strftime |-> << >>,
                   v1 |-> << >>]
    /\ storage = << >>
    /\ run = 0
    /\ now = FirstInstant
    /\ inventory = << >>
    /\ mainpc = "stamp"
    /\ timestamp = << >>
    /\ device_list = << >>
    /\ processes = 0
    /\ got = 0
    /\ pool = "none"
    /\ task = << >>

\* get_current_date_and_time of device-backup.py at the next instant
StampNow ==
    /\ mainpc = "stamp"
    /\ Len(probe.strftime) < 2
    /\ probe' = [probe EXCEPT !.strftime =
                    Append(probe.strftime,
                           Strftime(probe.instants[Len(probe.strftime) + 1]))]
    /\ UNCHANGED << storage, run, now, inventory, mainpc, timestamp,
                    device_list, processes, got, pool, task >>

\* get_current_date_and_time of part_000 at the next instant
StampNowV1 ==
    /\ mainpc = "stamp"
    /\ Len(probe.v1) < 2
    /\ probe' = [probe EXCEPT !.v1 =
                    Append(probe.v1,
                           v1_get_current_date_and_time(
                               probe.instants[Len(probe.v1) + 1]))]
    /\ UNCHANGED << storage, run, now, inventory, mainpc, timestamp,
                    device_list, processes, got, pool, task >>

NextStamp ==
    \/ StampNow
    \/ StampNowV1

SpecStamp == InitStamp /\ [][NextStamp]_vars

\* The timestamps of an earlier and a later instant, when they differ, are
\* in the order of strings
InOrder(stamps) ==
    (/\ Len(stamps) = 2
     /\ Earlier(probe.instants[1], probe.instants[2])
     /\ stamps[1] # stamps[2]) => StrLess(stamps[1], stamps[2])

\* C12: in both scripts the timestamp strings of two instants, the first
\* earlier than the second, that differ are in lexicographic order.
C12_TimestampsOrderPreserving ==
    /\ InOrder(probe.strftime)
    /\ InOrder(probe.v1)

(***************************************************************************)
(* Further properties of the fleet run                                     *)
(***************************************************************************)

\* C13: when compare_backup_with_previous_config cannot read an artifact,
\* the task still ends as done, and neither main nor another task is ended
\* by it.
C13_DiffFailureNotFatal ==
    \A i \in DOMAIN task :
        task[i].stage = "diffing" =>
            /\ task[i].pc = "done"
            /\ mainpc # "raised"
            /\ \A j \in DOMAIN task : task[j].pc # "killed"

\* The task has called connect_to_device and it has returned
Started(i) == task[i].conn # "none"

\* The task has stored its artifact: create_backup has returned
Stored(i) ==
    \/ task[i].pc \in { "disconnect", "locate", "compare", "done" }
    \/ task[i].pc \in { "failed", "killed" }
          /\ task[i].stage \in { "disconnect", "locate", "compare",
                                 "locating", "diffing" }

\* C14: two tasks of a run never address the same backup file, making the
\* directory of a hostname never fails, and the artifact a task has stored
\* holds the configuration of the task's device.
C14_NoSharedPaths ==
    /\ \A i, j \in DOMAIN task :
          (i # j /\ Started(i) /\ Started(j)) =>
              backup_file_path(i) # backup_file_path(j)
    /\ \A i \in DOMAIN task :
          ~(task[i].pc = "failed" /\ task[i].stage = "naming")
    /\ \A i \in DOMAIN task :
          Stored(i) =>
              /\ is_file(storage, backup_file_path(i))
              /\ file_at(storage, backup_file_path(i)).content
                     = device_list[i].running_config

\* The run of main over the inventories of up to FewDevices devices
FewDevices == 3

InitFew ==
    /\ Init
    /\ Len(inventory) <= FewDevices

SpecFew == InitFew /\ [][Next]_vars

\* The names of the files of the run in the directory of a hostname: the
\* artifact with the timestamp of the run and its changelog
RunNames(hostname) ==
    { ArtifactName(hostname, timestamp),
      NameOf(changes_file_path(get_backup_file_path(hostname, timestamp))) }

\* A step leaves every directory and every file in place, changes only
\* files of the run, and makes only files of the run, in the directories of
\* the hostnames of the device list
KeepsEarlierFiles ==
    \/ storage' = storage
    \/ /\ \A d \in DOMAIN storage :
             /\ d \in DOMAIN storage'
             /\ \A n \in DOMAIN storage[d] :
                   /\ n \in DOMAIN storage'[d]
                   /\ storage'[d][n] # storage[d][n] => n \in RunNames(d)
       /\ \A d \in DOMAIN storage' :
             IF d \in DOMAIN storage
             THEN \A n \in DOMAIN storage'[d] \ DOMAIN storage[d] :
                      n \in RunNames(d)
             ELSE /\ \E i \in DOMAIN device_list : hostname_of(i) = d
                  /\ \A n \in DOMAIN storage'[d] : n \in RunNames(d)

\* The task's enable() and send_command('sh run') have returned
Fetched(i) ==
    \/ Stored(i)
    \/ task[i].pc = "failed" /\ task[i].stage = "writing"

C16_BackupFailureReturnsFalse ==
    \A i \in DOMAIN task :
        task[i].stage \in { "fetching", "writing" } =>
            /\ task[i].pc = "done"
            /\ task[i].prev = NoName
            /\ ~is_file(storage, changes_file_path(backup_file_path(i)))

\* C17: main gives apply_async one task per device of the device list, in
\* the order of the list and each with the timestamp of the run, and at most
\* PoolSize tasks are in progress at a time.
C17_OneTaskPerDevice ==
    /\ Cardinality({ i \in DOMAIN task : InProgress(i) }) <= PoolSize
    /\ Len(task) = Len(device_list)
    /\ \A i \in DOMAIN task :
          /\ i <= processes <=> task[i].pc # "unsubmitted"
          /\ task[i].pc # "unsubmitted" =>
                task[i].args = << device_list[i], timestamp >>
    /\ mainpc \in { "get", "returned", "raised" } =>
          processes = Len(device_list)

\* More devices than the pool has processes: PoolSize tasks are in progress
\* and another waits in the queue
C17_Witness ==
    /\ mainpc = "get"
    /\ Cardinality({ i \in DOMAIN task : InProgress(i) }) = PoolSize
    /\ \E i \in DOMAIN task : task[i].pc = "queued"

\* The steps of a task, from one place of process_target to the next
StageSteps ==
    { << "unsubmitted", "queued" >>, << "queued", "naming" >>,
      << "naming", "mkdir" >>, << "naming", "backup" >>,
      << "mkdir", "backup" >>, << "backup", "disconnect" >>,
      << "disconnect", "locate" >>, << "locate", "compare" >>,
      << "locate", "done" >>, << "compare", "done" >> }

\* The backup files in the directory of the task's hostname other than the
\* task's own
OtherArtifacts(i) ==
    { n \in listdir(storage, backup_dir(hostname_of(i))) :
        EndsWith(n, DotTxt) /\ n # NameOf(backup_file_path(i)) }

\* A step moves a task along StageSteps or ends it; the task goes from the
\* lookup to the comparison with another backup file of the directory as the
\* predecessor, and from the lookup to its end when there is none
InStageOrder ==
    \A i \in DOMAIN task \cap DOMAIN task' :
        task'[i].pc # task[i].pc =>
            \/ task'[i].pc \in { "failed", "killed" }
            \/ /\ << task[i].pc, task'[i].pc >> \in StageSteps
               /\ task'[i].pc = "disconnect" =>
                     is_file(storage', backup_file_path(i))
               /\ (task[i].pc = "locate" /\ task'[i].pc = "compare") =>
                     task'[i].prev \in OtherArtifacts(i)
               /\ (task[i].pc = "locate" /\ task'[i].pc = "done") =>
                     /\ OtherArtifacts(i) = { }
                     /\ task'[i].prev = NoName
                     /\ storage' = storage

\* C18: a task goes through connect, fetch and write, lookup, comparison in
\* this order: it looks for the predecessor with its artifact stored,
\* compares only with a predecessor found, and ends as done without a
\* comparison when there is no predecessor.
C18_StagesInOrder ==
    /\ [](\A i \in DOMAIN task :
             task[i].pc \in { "locate", "compare" } =>
                 /\ is_file(storage, backup_file_path(i))
                 /\ task[i].pc = "compare" => task[i].prev # NoName)
    /\ [][InStageOrder]_vars

\* main has returned after a first backup, which ended without a comparison,
\* and a backup that was compared with its predecessor
C18_Witness ==
    /\ mainpc = "returned"
    /\ \E i \in DOMAIN task :
          /\ task[i].pc = "done"
          /\ task[i].prev = NoName
          /\ ~is_file(storage, changes_file_path(backup_file_path(i)))
    /\ \E i \in DOMAIN task :
          /\ task[i].pc = "done"
          /\ task[i].prev # NoName

(***************************************************************************)
(* part_000: get_devices_from_file, and the processes main starts          *)
(***************************************************************************)

\* The greatest number of rows of the inventory file after the header
MaxRows == 3

\* The rows of the inventory file: ip, username, password, device_type,
\* secret, hostname
InventoryRows ==
    { << ip, "admin", "pw", "cisco_ios", "en", hostname >> :
        ip \in { "10.0.0.1", "10.0.0.2" }, hostname \in { "r1", "r2" } }

\* probe keeps the rows of the file, the number of rows read, the dictionary
\* device (made once, before the loop), device_list as the list of
\* references it is (every element refers to the one dictionary "device"),
\* the place in main, and the argument device of each process
InitLoad ==
    /\ \E n \in 0..MaxRows : \E rows \in [1..n -> InventoryRows] :
          probe = [rows |-> rows, read |-> 0, device |-> << >>,
                   device_list |-> << >>, pc |-> "reading",
                   processes |-> << >>]
    /\ storage = << >>
    /\ run = 0
    /\ now = FirstInstant
    /\ inventory = << >>
    /\ mainpc = "load"
    /\ timestamp = << >>
    /\ device_list = << >>
    /\ processes = 0
    /\ got = 0
    /\ pool = "none"
    /\ task = << >>

\* The body of "for row in reader": the fields of the row are stored in the
\* dictionary device, and a reference to it is appended to device_list
ReadRow ==
    /\ mainpc = "load"
    /\ probe.pc = "reading"
    /\ probe.read < Len(probe.rows)
    /\ LET row == probe.rows[probe.read + 1]
       IN probe' = [probe EXCEPT
                       !.read = probe.read + 1,
                       !.device = [ip |-> row[1], username |-> row[2],
                                   password |-> row[3], device_type |-> row[4],
                                   secret |-> row[5], hostname |-> row[6]],
                       !.device_list = Append(probe.device_list, "device")]
    /\ UNCHANGED << storage, run, now, inventory, mainpc, timestamp,
                    device_list, processes, got, pool, task >>

\* The element of device_list: what the reference refers to
Element(k) ==
    IF probe.device_list[k] = "device" THEN probe.device ELSE << >>

\* get_devices_from_file returns device_list, and main makes one
\* mp.Process per element, with the element as its argument device
StartProcesses ==
    /\ mainpc = "load"
    /\ probe.pc = "reading"
    /\ probe.read = Len(probe.rows)
    /\ probe' = [probe EXCEPT
                    !.pc = "started",
                    !.processes = [k \in DOMAIN probe.device_list |->
                                      Element(k)]]
    /\ UNCHANGED << storage, run, now, inventory, mainpc, timestamp,
                    device_list, processes, got, pool, task >>

NextLoad ==
    \/ ReadRow
    \/ StartProcesses

SpecLoad == InitLoad /\ [][NextLoad]_vars

\* C19: get_devices_from_file returns one record per row, the i-th with the
\* fields of the i-th row, and main starts one process per row, on that
\* row's device.
C19_OneRecordPerRow ==
    probe.pc = "started" =>
        /\ Len(probe.device_list) = Len(probe.rows)
        /\ Len(probe.processes) = Len(probe.rows)
        /\ \A i \in DOMAIN probe.rows :
              /\ Element(i).ip = probe.rows[i][1]
              /\ Element(i).hostname = probe.rows[i][6]
              /\ probe.processes[i].ip = probe.rows[i][1]
              /\ probe.processes[i].username = probe.rows[i][2]
              /\ probe.processes[i].password = probe.rows[i][3]
              /\ probe.processes[i].device_type = probe.rows[i][4]
              /\ probe.processes[i].secret = probe.rows[i][5]
              /\ probe.processes[i].hostname = probe.rows[i][6]

(***************************************************************************)
(* part_000: the runs of process_target for one hostname                   *)
(***************************************************************************)

CHANGELOG_FILE_NAME == << "c", "h", "a", "n", "g", "e", "l", "o", "g", ".", "t", "x", "t" >>

BACKUPLOG_FILE_NAME == << "b", "a", "c", "k", "u", "p", "_", "l", "o", "g", ".", "t", "x", "t" >>

\* os.getcwd() of the script
Getcwd == << "/", "w" >>

\* The value get_previous_backup_file returns when the log has one line
NothingToCompare ==
    << "n", "o", "t", "h", "i", "n", "g", " ", "t", "o", " ", "c", "o", "m",
    "p", "a", "r", "e", " ", "t", "o" >>

ContainsChanges ==
    << " ", "c", "o", "n", "t", "a", "i", "n", "s", " ", "t", "h", "e", " ",
    "f", "o", "l", "l", "o", "w", "i", "n", "g", " ", "c", "h", "a", "n",
    "g", "e", "s", " ", "c", "o", "m", "p", "a", "r", "i", "n", "g", " ",
    "t", "o", " " >>

ContainsNoChanges ==
    << " ", "c", "o", "n", "t", "a", "i", "n", "s", " ", "0", " ", "c", "h",
    "a", "n", "g", "e", "s", " ", "c", "o", "m", "p", "a", "r", "i", "n",
    "g", " ", "t", "o", " " >>

\* '\n' + '*'*20 + '\n'*5
Trailer ==
    << "\n", "*", "*", "*", "*", "*", "*", "*", "*", "*", "*", "*", "*",
    "*", "*", "*", "*", "*", "*", "*", "*", "\n", "\n", "\n", "\n", "\n" >>

\* create_backup_directory returns os.getcwd() + "/" + hostname
create_backup_directory(hostname) == Getcwd \o << "/" >> \o hostname

\* create_backup_file_name: hostname + '-' + today + '.txt'
create_backup_file_name(hostname, today) ==
    hostname \o << "-" >> \o today \o DotTxt

\* open(path, 'w') and write(text) in part_000: files maps a path to the
\* file's content and the run that wrote it last (its modification time)
v1_written(files, path, text, at) ==
    [p \in DOMAIN files \cup { path } |->
        IF p = path THEN [content |-> text, mtime |-> at] ELSE files[p]]

\* open(path, 'a+') and write(text)
v1_appended(files, path, text, at) ==
    v1_written(files, path,
               IF path \in DOMAIN files THEN files[path].content \o text
               ELSE text, at)

\* log_backups(last_backup, logfile_name)
log_backups(files, last_backup, logfile_name, at) ==
    v1_appended(files, logfile_name, last_backup \o << "\n" >>, at)

\* get_previous_backup_file(logfile_name): the last line but one of the log
get_previous_backup_file(files, logfile_name) ==
    LET backup_list == SplitLines(files[logfile_name].content)
    IN IF Len(backup_list) > 1 THEN backup_list[Len(backup_list) - 1]
       ELSE NothingToCompare

\* filecmp.cmp(f1, f2) on the files of part_000
v1_filecmp(files, f1, f2) ==
    LET size1 == Len(files[f1].content)
        size2 == Len(files[f2].content)
    IN IF size1 = size2 /\ files[f1].mtime = files[f2].mtime THEN TRUE
       ELSE IF size1 # size2 THEN FALSE
       ELSE files[f1].content = files[f2].content

\* The instants of the runs: two minutes, two seconds of each
V1Instants ==
    { [FirstInstant EXCEPT !.M = FirstInstant.M + j, !.S = FirstInstant.S + k] :
        j \in 0..1, k \in 0..1 }

\* probe keeps the place in the run (pc), the number of runs ended, the
\* arguments and local paths of process_target, the files, and the two
\* files the last comparison was given
InitV1 ==
    /\ probe = [pc |-> "idle", runs |-> 0, timestamp |-> << >>,
                backup_file_path |-> << >>, files |-> << >>,
                previous_backup_file |-> << >>, compared |-> << >>]
    /\ storage = << >>
    /\ run = 0
    /\ now \in V1Instants
    /\ inventory = << >>
    /\ mainpc = "v1"
    /\ timestamp = << >>
    /\ device_list = << >>
    /\ processes = 0
    /\ got = 0
    /\ pool = "none"
    /\ task = << >>

V1Others == << storage, run, inventory, mainpc, timestamp, device_list,
               processes, got, pool, task >>

\* main takes the timestamp and starts the process; process_target makes
\* the directory path and the paths of its files
V1Start ==
    /\ mainpc = "v1"
    /\ probe.pc = "idle"
    /\ probe.runs < MaxRuns
    /\ LET today == v1_get_current_date_and_time(now)
           path == create_backup_directory(Hostname(1))
       IN probe' = [probe EXCEPT
                       !.pc = "paths",
                       !.timestamp = today,
                       !.backup_file_path =
                           path \o << "/" >>
                                \o create_backup_file_name(Hostname(1), today),
                       !.previous_backup_file = << >>,
                       !.compared = << >>]
    /\ UNCHANGED << now >>
    /\ UNCHANGED V1Others

\* connect_to_device and create_backup: either raises, and the process
\* ends; otherwise the output is written to the backup file and the path
\* is added to the log; then the connection is closed
V1CreateBackup ==
    /\ mainpc = "v1"
    /\ probe.pc = "paths"
    /\ \/ probe' = [probe EXCEPT !.pc = "raised"]
       \/ \E output \in Configs :
             LET at == probe.runs + 1
                 backuplog_file_path ==
                     create_backup_directory(Hostname(1)) \o << "/" >>
                         \o BACKUPLOG_FILE_NAME
             IN probe' = [probe EXCEPT
                             !.pc = "backed_up",
                             !.files =
                                 log_backups(
                                     v1_written(probe.files,
                                                probe.backup_file_path,
                                                output, at),
                                     probe.backup_file_path,
                                     backuplog_file_path, at)]
    /\ UNCHANGED << now >>
    /\ UNCHANGED V1Others

\* compare_backup_with_the_previous(backup_file, changelog_file, log_file)
V1Compare ==
    /\ mainpc = "v1"
    /\ probe.pc = "backed_up"
    /\ LET at == probe.runs + 1
           path == create_backup_directory(Hostname(1))
           backup_file == probe.backup_file_path
           log_file == path \o << "/" >> \o BACKUPLOG_FILE_NAME
           changelog_file == path \o << "/" >> \o CHANGELOG_FILE_NAME
           previous_backup_file == get_previous_backup_file(probe.files, log_file)
       IN IF previous_backup_file # NothingToCompare
          THEN IF ~v1_filecmp(probe.files, previous_backup_file, backup_file)
               THEN probe' = [probe EXCEPT
                       !.pc = "compared",
                       !.previous_backup_file = previous_backup_file,
                       !.compared = << previous_backup_file, backup_file >>,
                       !.files =
                           v1_appended(probe.files, changelog_file,
                               backup_file \o ContainsChanges
                                   \o previous_backup_file \o << ":", "\n" >>
                                   \o JoinWith(<< "\n" >>,
                                        unified_diff(
                                          SplitLines(probe.files[previous_backup_file].content),
                                          SplitLines(probe.files[backup_file].content)))
                                   \o Trailer, at)]
               ELSE probe' = [probe EXCEPT
                       !.pc = "compared",
                       !.previous_backup_file = previous_backup_file,
                       !.compared = << previous_backup_file, backup_file >>,
                       !.files =
                           v1_appended(probe.files, changelog_file,
                               backup_file \o ContainsNoChanges
                                   \o previous_backup_file \o << ":", "\n" >>
                                   \o Trailer, at)]
          ELSE probe' = [probe EXCEPT
                       !.pc = "compared",
                       !.previous_backup_file = previous_backup_file]
    /\ UNCHANGED << now >>
    /\ UNCHANGED V1Others

\* The process has ended and main returns; the script is run again at a
\* later instant
V1End ==
    /\ mainpc = "v1"
    /\ probe.pc \in { "compared", "raised" }
    /\ \E t \in V1Instants :
          /\ Earlier(now, t)
          /\ now' = t
    /\ probe' = [probe EXCEPT !.pc = "idle", !.runs = probe.runs + 1]
    /\ UNCHANGED V1Others

NextV1 ==
    \/ V1Start
    \/ V1CreateBackup
    \/ V1Compare
    \/ V1End

SpecV1 == InitV1 /\ [][NextV1]_vars

\* C20: after any sequence of runs of process_target for one hostname, the
\* file get_previous_backup_file selects as the predecessor is never the
\* current backup file, and compare_backup_with_the_previous never compares
\* a file with itself.
C20_PredecessorIsNotCurrent ==
    probe.pc = "compared" =>
        /\ probe.previous_backup_file # probe.backup_file_path
        /\ probe.compared # << >> => probe.compared[1] # probe.compared[2]

====
